---- MODULE Spec2Model ----
(***************************************************************************)
(* The three benchmark programs of interface-bench as one state machine.   *)
(*                                                                         *)
(*   variant "A"  concrete_vs_interface.go                                 *)
(*                func (i Int) Sum(i2 Int) Int    { return i + i2 }        *)
(*   variant "B"  concrete_vs_interface_pointers.go (src/unnamed/part_000) *)
(*                func (i *Int) Sum(i2 Int) *Int  { *i += i2; return i }   *)
(*   variant "C"  concrete_vs_interface_pointers_inplace.go                *)
(*                func (i *Int) Sum(i2 Int)       { *i += i2 }             *)
(*                                                                         *)
(* Each program is main(): start the CPU profiler and defer its Stop, run  *)
(* the concrete loop between two clock readings and report it, run the     *)
(* interface loop between two clock readings and report it, return.        *)
(*                                                                         *)
(* The source fixes nbOps = 1e8 and the increment Int(10).  Here the       *)
(* iteration count and the increment of a run are chosen in Init from      *)
(* 0..MaxOps and 0..MaxInc, so that a run has a few dozen steps; the       *)
(* increment 10 of the source is one of the increments explored.           *)
(***************************************************************************)
EXTENDS Integers, Sequences, FiniteSets, TLC

VARIABLES
    variant,    \* which of the three programs runs
    nbOps,      \* const nbOps: the iteration count of both loops
    inc,        \* the argument Int(..) of every Sum call
    pc,         \* position of main
    i,          \* the index of the for loop being run
    zero,       \* storage of `var zero Int` (variants B, C)
    iConcrete,  \* iConcrete / iConcreteP: Int (A) or *Int (B, C)
    iInterface, \* iInterface / iInterfaceP: a Summable
    start,      \* var start time.Time
    now,        \* the clock read by time.Now()
    out,        \* lines written to standard output, in order
    profiler,   \* the CPU profiling session of pkg/profile
    profStarts, \* number of profile.Start calls made
    profStops,  \* number of Stop calls made
    deferred,   \* main's stack of deferred calls
    sums,       \* Sum calls made so far by each loop
    boxes,      \* heap allocations made by value-to-interface conversions
    convs,      \* conversions to Summable made so far
    exitCode,   \* process exit status, -1 while running
    phase       \* each timed loop: "not started", "running" or "stopped"

vars == <<variant, nbOps, inc, pc, i, zero, iConcrete, iInterface, start, now,
          out, profiler, profStarts, profStops, deferred, sums, boxes, convs,
          exitCode, phase>>

-----------------------------------------------------------------------------
(* Bounds of the exploration *)

MaxOps == 3

MaxInc == 10

MaxTick == 1

MaxCalls == MaxOps + 1

Variants == {"A", "B", "C"}

Loops == {"concrete", "interface"}

-----------------------------------------------------------------------------
(* Values *)

\* A variable that has not been declared yet.
Nil == [kind |-> "nil"]

\* An Int held by value.
Val(x) == [kind |-> "val", v |-> x]

\* &zero: a *Int.
PtrZero == [kind |-> "ptr", to |-> "zero"]

\* Conversion of a concrete value to Summable: an interface value is an
\* (itab, data) pair; since Go 1.4 the data word is always a pointer, so a
\* non-pointer Int is copied to a fresh heap cell, a *Int is stored as is.
ConvT2I(h) ==
    [kind |-> "iface",
     tab  |-> IF h.kind = "val" THEN "Int" ELSE "*Int",
     data |-> h]

\* Heap allocations made by ConvT2I(h).
ConvAllocs(h) == IF h.kind = "val" THEN 1 ELSE 0

\* The concrete value an interface value holds; a concrete value is itself.
Dyn(h) == IF h.kind = "iface" THEN h.data ELSE h

\* The counter a handle denotes, given the storage z of variable zero.
CounterIn(h, z) ==
    LET d == Dyn(h) IN
    IF d.kind = "ptr" THEN z ELSE IF d.kind = "val" THEN d.v ELSE 0

CounterOf(h) == CounterIn(h, zero)

-----------------------------------------------------------------------------
(* Sum, in its three shapes.  Each takes the receiver, the storage of zero *)
(* and the argument and yields the returned value (Nil when Sum returns    *)
(* nothing) and the storage of zero afterwards.                            *)

\* Int addition.  Int is an int64 and + wraps modulo 2^64; every value the
\* bounded runs reach (at most 2 * MaxOps * MaxInc) is far inside that range,
\* so the wrap is never taken and is not modelled.
IntAdd(a, b) == a + b

SumValue(recv, z, i2) ==
    [ret |-> Val(IntAdd(recv.v, i2)), mem |-> z]

\* SumPointer with the receiver taken by value: the addition is made on a
\* copy and the variable is left as it was.
SumPointerNoStore(recv, z, i2) ==
    [ret |-> recv, mem |-> z]

\* SumPointer returning the address of a fresh copy of the sum instead of
\* its receiver: the handle it is assigned to leaves the variable zero.
SumPointerFresh(recv, z, i2) ==
    [ret |-> Val(IntAdd(z, i2)), mem |-> z]

SumPointer(recv, z, i2) ==
    [ret |-> recv, mem |-> IntAdd(z, i2)]

SumInPlace(recv, z, i2) ==
    [ret |-> Nil, mem |-> IntAdd(z, i2)]

Sum(v, recv, z, i2) ==
    CASE v = "A" -> SumValue(recv, z, i2)
      [] v = "B" -> SumPointer(recv, z, i2)
      [] v = "C" -> SumInPlace(recv, z, i2)

\* The loop body through the concrete handle:
\*   A, B:  iConcrete = iConcrete.Sum(Int(k))      C:  iConcrete.Sum(Int(k))
ConcreteBody(v, h, z, k) ==
    LET r == Sum(v, h, z, k) IN
    [h |-> IF v = "C" THEN h ELSE r.ret, mem |-> r.mem, allocs |-> 0,
     convs |-> 0]

\* The interface loop body with the result of Sum dropped in every
\* variant: nothing is stored back in the interface variable.
InterfaceBodyDiscard(v, h, z, k) ==
    LET r == Sum(v, Dyn(h), z, k) IN
    [h |-> h, mem |-> r.mem, allocs |-> 0, convs |-> 0]

\* The loop body through the interface handle: the call is dispatched on
\* the dynamic value; in A and B the result is converted back to Summable.
InterfaceBody(v, h, z, k) ==
    LET r == Sum(v, Dyn(h), z, k) IN
    [h      |-> IF v = "C" THEN h ELSE ConvT2I(r.ret),
     mem    |-> r.mem,
     allocs |-> IF v = "C" THEN 0 ELSE ConvAllocs(r.ret),
     convs  |-> IF v = "C" THEN 0 ELSE 1]

\* The loop condition off by one: i <= nbOps.
LoopCondInclusive(idx, n) == idx <= n

\* for i := 0; i < nbOps; i++
LoopCond(idx, n) == idx < n

\* The post statement without effect: the index never advances.
LoopPostStuck(idx) == idx

LoopPost(idx) == idx + 1

\* var iConcrete Int   /   var iConcreteP *Int = &zero
ConcreteInit(v) == IF v = "A" THEN Val(0) ELSE PtrZero

\* var iInterface Summable = Int(0)   /   var iInterfaceP Summable = &zero
InterfaceInit(v) == ConvT2I(IF v = "A" THEN Val(0) ELSE PtrZero)

\* Both report lines with the label of the first.
LabelSame(loop) == "[concrete]"

\* The first word of a report line.
Label(loop) == IF loop = "concrete" THEN "[concrete]" ELSE "[interface]"

\* fmt.Printf("[...] computed %d sums in %v\n", nbOps, time.Now().Sub(start))
ReportLine(loop, n, t0, t1) == [label |-> Label(loop), ops |-> n, dur |-> t1 - t0]

\* A clock reading taken at or after reading t.
Later(t) == {t + d : d \in 0..MaxTick}

-----------------------------------------------------------------------------
(* main *)

Init ==
    /\ variant \in Variants
    /\ nbOps \in 0..MaxOps
    /\ inc \in 0..MaxInc
    /\ pc = "main"
    /\ i = 0
    /\ zero = 0
    /\ iConcrete = Nil
    /\ iInterface = Nil
    /\ start = 0
    /\ now = 0
    /\ out = <<>>
    /\ profiler = "off"
    /\ profStarts = 0
    /\ profStops = 0
    /\ deferred = <<>>
    /\ sums = [l \in Loops |-> 0]
    /\ boxes = 0
    /\ convs = 0
    /\ exitCode = -1
    /\ phase = [l \in Loops |-> "not started"]

\* The statement without its defer keyword: Stop runs at once.
DeferProfileNotDeferred ==
    /\ pc = "main"
    /\ profiler' = "stopped"
    /\ profStarts' = profStarts + 1
    /\ profStops' = profStops + 1
    /\ pc' = "c_decl"
    /\ UNCHANGED <<variant, nbOps, inc, i, zero, iConcrete, iInterface, start,
                   now, out, deferred, sums, boxes, convs, exitCode, phase>>

\* defer profile.Start(profile.CPUProfile).Stop(): Start runs now, Stop is
\* pushed on the deferred stack.
DeferProfile ==
    /\ pc = "main"
    /\ profiler' = "running"
    /\ profStarts' = profStarts + 1
    /\ deferred' = <<"Stop">> \o deferred
    /\ pc' = "c_decl"
    /\ UNCHANGED <<variant, nbOps, inc, i, zero, iConcrete, iInterface, start,
                   now, out, profStops, sums, boxes, convs, exitCode,
                   phase>>

\* var start time.Time; (var zero Int;) var iConcrete ...
ConcreteDecl ==
    /\ pc = "c_decl"
    /\ zero' = 0
    /\ iConcrete' = ConcreteInit(variant)
    /\ pc' = "c_now"
    /\ UNCHANGED <<variant, nbOps, inc, i, iInterface, start, now, out,
                   profiler, profStarts, profStops, deferred, sums, boxes, convs,
                   exitCode,
                   phase>>

\* start = time.Now(); i := 0
ConcreteStart ==
    /\ pc = "c_now"
    /\ now' \in Later(now)
    /\ start' = now'
    /\ i' = 0
    /\ pc' = "c_loop"
    /\ phase' = [phase EXCEPT !["concrete"] = "running"]
    /\ UNCHANGED <<variant, nbOps, inc, zero, iConcrete, iInterface, out,
                   profiler, profStarts, profStops, deferred, sums, boxes, convs,
                   exitCode>>

\* i < nbOps holds: the body, then i++.  The bound on sums keeps the state
\* space finite; it never binds, since sums = i < nbOps <= MaxOps here.
ConcreteIter ==
    /\ pc = "c_loop"
    /\ LoopCond(i, nbOps)
    /\ sums["concrete"] < MaxCalls
    /\ LET r == ConcreteBody(variant, iConcrete, zero, inc) IN
         /\ iConcrete' = r.h
         /\ zero' = r.mem
         /\ boxes' = boxes + r.allocs
         /\ convs' = convs + r.convs
    /\ sums' = [sums EXCEPT !["concrete"] = @ + 1]
    /\ i' = LoopPost(i)
    /\ UNCHANGED <<variant, nbOps, inc, pc, iInterface, start, now, out,
                   profiler, profStarts, profStops, deferred, exitCode,
                   phase>>

\* The concrete loop left without its report: the interface section
\* follows while the first measurement is still open.
ConcreteExitSkipReport ==
    /\ pc = "c_loop"
    /\ ~(i < nbOps)
    /\ i' = 0
    /\ pc' = "i_decl"
    /\ UNCHANGED <<variant, nbOps, inc, zero, iConcrete, iInterface, start,
                   now, out, profiler, profStarts, profStops, deferred, sums,
                   boxes, convs, exitCode, phase>>

\* i < nbOps fails; _ = iConcrete
ConcreteExit ==
    /\ pc = "c_loop"
    /\ ~LoopCond(i, nbOps)
    /\ i' = 0
    /\ pc' = "c_report"
    /\ UNCHANGED <<variant, nbOps, inc, zero, iConcrete, iInterface, start,
                   now, out, profiler, profStarts, profStops, deferred, sums,
                   boxes, convs, exitCode,
                   phase>>

\* fmt.Printf("[concrete]  computed %d sums in %v\n", nbOps, time.Now().Sub(start))
ConcreteReport ==
    /\ pc = "c_report"
    /\ now' \in Later(now)
    /\ out' = Append(out, ReportLine("concrete", nbOps, start, now'))
    /\ pc' = "i_decl"
    /\ phase' = [phase EXCEPT !["concrete"] = "stopped"]
    /\ UNCHANGED <<variant, nbOps, inc, i, zero, iConcrete, iInterface, start,
                   profiler, profStarts, profStops, deferred, sums, boxes, convs,
                   exitCode>>

\* var iInterface Summable = Int(0)   /   = &zero
InterfaceDecl ==
    /\ pc = "i_decl"
    /\ iInterface' = InterfaceInit(variant)
    /\ boxes' = boxes + ConvAllocs(Dyn(InterfaceInit(variant)))
    /\ convs' = convs + 1
    /\ pc' = "i_now"
    /\ UNCHANGED <<variant, nbOps, inc, i, zero, iConcrete, start, now, out,
                   profiler, profStarts, profStops, deferred, sums, exitCode,
                   phase>>

\* start = time.Now(); i := 0
InterfaceStart ==
    /\ pc = "i_now"
    /\ now' \in Later(now)
    /\ start' = now'
    /\ i' = 0
    /\ pc' = "i_loop"
    /\ phase' = [phase EXCEPT !["interface"] = "running"]
    /\ UNCHANGED <<variant, nbOps, inc, zero, iConcrete, iInterface, out,
                   profiler, profStarts, profStops, deferred, sums, boxes, convs,
                   exitCode>>

\* i < nbOps holds: the body, then i++ (sums bounded as in ConcreteIter)
InterfaceIter ==
    /\ pc = "i_loop"
    /\ LoopCond(i, nbOps)
    /\ sums["interface"] < MaxCalls
    /\ LET r == InterfaceBody(variant, iInterface, zero, inc) IN
         /\ iInterface' = r.h
         /\ zero' = r.mem
         /\ boxes' = boxes + r.allocs
         /\ convs' = convs + r.convs
    /\ sums' = [sums EXCEPT !["interface"] = @ + 1]
    /\ i' = LoopPost(i)
    /\ UNCHANGED <<variant, nbOps, inc, pc, iConcrete, start, now, out,
                   profiler, profStarts, profStops, deferred, exitCode,
                   phase>>

\* i < nbOps fails; _ = iInterface
InterfaceExit ==
    /\ pc = "i_loop"
    /\ ~LoopCond(i, nbOps)
    /\ i' = 0
    /\ pc' = "i_report"
    /\ UNCHANGED <<variant, nbOps, inc, zero, iConcrete, iInterface, start,
                   now, out, profiler, profStarts, profStops, deferred, sums,
                   boxes, convs, exitCode,
                   phase>>

\* fmt.Printf("[interface] computed %d sums in %v\n", nbOps, time.Now().Sub(start))
InterfaceReport ==
    /\ pc = "i_report"
    /\ now' \in Later(now)
    /\ out' = Append(out, ReportLine("interface", nbOps, start, now'))
    /\ pc' = "return"
    /\ phase' = [phase EXCEPT !["interface"] = "stopped"]
    /\ UNCHANGED <<variant, nbOps, inc, i, zero, iConcrete, iInterface, start,
                   profiler, profStarts, profStops, deferred, sums, boxes, convs,
                   exitCode>>

\* Number of deferred Stop calls on the stack d.
DeferredStops(d) == Cardinality({j \in 1..Len(d) : d[j] = "Stop"})

\* The closing brace of main: the deferred calls run, the process exits 0.
Return ==
    /\ pc = "return"
    /\ profStops' = profStops + DeferredStops(deferred)
    /\ profiler' = IF DeferredStops(deferred) > 0 THEN "stopped" ELSE profiler
    /\ deferred' = <<>>
    /\ exitCode' = 0
    /\ pc' = "exited"
    /\ UNCHANGED <<variant, nbOps, inc, i, zero, iConcrete, iInterface, start,
                   now, out, profStarts, sums, boxes, convs, phase>>

Next ==
    \/ DeferProfile
    \/ ConcreteDecl
    \/ ConcreteStart
    \/ ConcreteIter
    \/ ConcreteExit
    \/ ConcreteReport
    \/ InterfaceDecl
    \/ InterfaceStart
    \/ InterfaceIter
    \/ InterfaceExit
    \/ InterfaceReport
    \/ Return

Spec == Init /\ [][Next]_vars

\* main is the only goroutine of the program: it always takes its next step.
FairSpec == Spec /\ WF_vars(Next)

-----------------------------------------------------------------------------
(* A whole run as a function of the variant, the iteration count and the   *)
(* increment: the two loops of main applied to fresh variables.            *)

RECURSIVE RunConcrete(_, _, _, _, _, _)
RunConcrete(v, h, z, k, idx, n) ==
    IF LoopCond(idx, n)
    THEN LET r == ConcreteBody(v, h, z, k) IN
         RunConcrete(v, r.h, r.mem, k, idx + 1, n)
    ELSE [h |-> h, mem |-> z]

RECURSIVE RunInterface(_, _, _, _, _, _)
RunInterface(v, h, z, k, idx, n) ==
    IF LoopCond(idx, n)
    THEN LET r == InterfaceBody(v, h, z, k) IN
         RunInterface(v, r.h, r.mem, k, idx + 1, n)
    ELSE [h |-> h, mem |-> z]

\* The counter the interface handle denotes when main returns.
FinalValue(v, n, k) ==
    LET c == RunConcrete(v, ConcreteInit(v), 0, k, 0, n)
        f == RunInterface(v, InterfaceInit(v), c.mem, k, 0, n)
    IN  CounterIn(f.h, f.mem)

-----------------------------------------------------------------------------
(* Properties *)

BeforeConcreteReport == {"main", "c_decl", "c_now", "c_loop", "c_report"}

BeforeInterfaceReport == {"i_decl", "i_now", "i_loop", "i_report"}

AfterReports == {"return", "exited"}

\* C1: in every variant, for every iteration count and increment, the
\* counter seen at the end of the concrete loop is nbOps * inc and the
\* counter seen at the end of the interface loop is nbOps * inc too.
C1_BothLoopsReachProduct ==
    /\ pc = "c_report" => CounterOf(iConcrete) = nbOps * inc
    /\ pc = "i_report" => CounterOf(iInterface) = nbOps * inc

\* C2: for the same iteration count and increment the counter at program
\* end is the one every variant ends with.
C2_SameFinalValueInEveryVariant ==
    pc = "exited" =>
        \A v \in Variants : CounterOf(iInterface) = FinalValue(v, nbOps, inc)

\* The counter a loop's handle denotes when the loop starts: the concrete
\* loop starts from the zero value; the interface loop starts from Int(0)
\* in A and from what the concrete loop left in zero in B and C.
LoopStartValue(loop) ==
    IF loop = "concrete" \/ variant = "A" THEN 0 ELSE nbOps * inc

Counters == <<zero, CounterOf(iConcrete), CounterOf(iInterface)>>

HandleOf(loop) == IF loop = "concrete" THEN iConcrete ELSE iInterface

Declared(h) == h.kind # "nil"

C3_LoopInvariant ==
    /\ pc = "c_loop" =>
          /\ sums["concrete"] = i
          /\ i <= nbOps
          /\ CounterOf(iConcrete) = LoopStartValue("concrete") + inc * i
    /\ pc = "i_loop" =>
          /\ sums["interface"] = i
          /\ i <= nbOps
          /\ CounterOf(iInterface) = LoopStartValue("interface") + inc * i
    /\ pc \in {"main", "c_decl", "c_now"} => sums["concrete"] = 0
    /\ pc \in BeforeConcreteReport \cup {"i_decl", "i_now"} => sums["interface"] = 0
    /\ pc \notin {"main", "c_decl", "c_now", "c_loop"} => sums["concrete"] = nbOps
    /\ pc = "c_report" =>
          CounterOf(iConcrete) = LoopStartValue("concrete") + inc * nbOps
    /\ pc \in {"i_report"} \cup AfterReports =>
          /\ sums["interface"] = nbOps
          /\ CounterOf(iInterface) = LoopStartValue("interface") + inc * nbOps

C3_CounterStep ==
    IF sums' # sums
    THEN \E l \in Loops :
            /\ sums' = [sums EXCEPT ![l] = @ + 1]
            /\ CounterOf(HandleOf(l))' = CounterOf(HandleOf(l)) + inc
    ELSE /\ zero' = zero
         /\ \A l \in Loops :
               Declared(HandleOf(l)) =>
                  CounterOf(HandleOf(l))' = CounterOf(HandleOf(l))

\* C3: a counter changes only through a Sum call, which adds exactly the
\* increment; each loop makes exactly nbOps calls, so after i iterations the
\* counter is its value at loop start plus inc * i and, at the end of the
\* loop, that value plus inc * nbOps.
C3_FixedIncrementPerCall == []C3_LoopInvariant /\ [][C3_CounterStep]_vars

C3_Witness ==
    /\ variant = "B"
    /\ inc = 10
    /\ nbOps >= 2
    /\ pc = "i_loop"
    /\ i = nbOps
    /\ zero = 2 * nbOps * 10

\* C4: with an iteration count of zero no loop makes a Sum call, every
\* counter stays at zero and each loop still writes its report line.
C4_ZeroIterations ==
    nbOps = 0 =>
        /\ sums = [l \in Loops |-> 0]
        /\ Counters = <<0, 0, 0>>
        /\ pc \notin BeforeConcreteReport =>
              Len(out) >= 1 /\ out[1].label = "[concrete]"
        /\ pc \in AfterReports =>
              Len(out) = 2 /\ out[2].label = "[interface]"

C4_Witness ==
    /\ nbOps = 0
    /\ inc > 0
    /\ pc = "exited"
    /\ Len(out) = 2
    /\ sums = [l \in Loops |-> 0]

\* C5: a run writes exactly two report lines, each with the iteration
\* count: [concrete] first, after the concrete loop has made all its calls
\* and before the interface section begins, then [interface], after the
\* interface loop has made all its calls.
C5_TwoReportsInOrder ==
    /\ Len(out) = 0 <=> pc \in BeforeConcreteReport
    /\ Len(out) = 1 <=> pc \in BeforeInterfaceReport
    /\ Len(out) = 2 <=> pc \in AfterReports
    /\ Len(out) >= 1 =>
          /\ out[1].label = "[concrete]"
          /\ out[1].ops = nbOps
          /\ sums["concrete"] = nbOps
    /\ Len(out) = 0 => iInterface = Nil /\ sums["interface"] = 0
    /\ Len(out) = 2 =>
          /\ out[2].label = "[interface]"
          /\ out[2].ops = nbOps
          /\ sums["interface"] = nbOps

C5_Witness ==
    /\ pc = "exited"
    /\ nbOps > 0
    /\ Len(out) = 2
    /\ out[1].label = "[concrete]"
    /\ out[2].label = "[interface]"

\* C6: the profiler is started exactly once, before the first clock
\* reading; it runs through both loops and both reports; it is stopped
\* exactly once, on return from main after the second report; it is never
\* stopped before it was started and never stopped twice.
C6_ProfilerBracketsRun ==
    /\ profStops <= profStarts
    /\ profStarts <= 1
    /\ profStops <= 1
    /\ pc = "main" => profStarts = 0 /\ profiler = "off"
    /\ pc \notin {"main", "exited"} =>
          profStarts = 1 /\ profStops = 0 /\ profiler = "running"
    /\ pc = "exited" =>
          profStarts = 1 /\ profStops = 1 /\ profiler = "stopped" /\ Len(out) = 2
    /\ phase["concrete"] # "not started" => profStarts = 1

C6_Witness ==
    /\ pc = "exited"
    /\ profiler = "stopped"
    /\ profStarts = 1
    /\ profStops = 1
    /\ deferred = <<>>

PhaseRank(p) ==
    CASE p = "not started" -> 0
      [] p = "running" -> 1
      [] p = "stopped" -> 2

C8_NoOverlap ==
    /\ phase["interface"] # "not started" => phase["concrete"] = "stopped"
    /\ ~(phase["concrete"] = "running" /\ phase["interface"] = "running")
    /\ pc \in {"c_loop", "c_report"} <=> phase["concrete"] = "running"
    /\ pc \in {"i_loop", "i_report"} <=> phase["interface"] = "running"

C8_PhaseStep ==
    \A l \in Loops :
        \/ phase'[l] = phase[l]
        \/ PhaseRank(phase'[l]) = PhaseRank(phase[l]) + 1

\* C8: each loop goes not started, running, stopped, in that order, and
\* never back; the interface loop leaves "not started" only once the
\* concrete loop is stopped, so the two loops are never running together.
C8_LoopsInSequence == []C8_NoOverlap /\ [][C8_PhaseStep]_vars

C8_Witness ==
    /\ phase["concrete"] = "stopped"
    /\ phase["interface"] = "running"
    /\ pc = "i_loop"
    /\ i > 0

Done ==
    /\ pc = "exited"
    /\ exitCode = 0
    /\ Len(out) = 2
    /\ phase = [l \in Loops |-> "stopped"]

\* C9: every run terminates: it finishes the concrete loop, then the
\* interface loop, writes both reports and exits with status 0; no state
\* short of the exit is stuck and no other exit status occurs.
C9_Terminates ==
    /\ <>Done
    /\ [](exitCode \in {-1, 0})
    /\ [](pc # "exited" => ENABLED Next)

C9_Witness ==
    /\ Done
    /\ nbOps = MaxOps
    /\ sums = [l \in Loops |-> nbOps]

InterfaceStretch == BeforeInterfaceReport \ {"i_decl"}

\* C11: in the pointer variants B and C the concrete handle and the
\* interface handle both denote the variable zero for the whole run, so the
\* interface loop starts from the nbOps * inc the concrete loop left there
\* and zero ends at 2 * nbOps * inc; in variant A the interface counter
\* starts at 0 and the interface loop leaves iConcrete as it was.
C11_SharedStorage ==
    /\ variant \in {"B", "C"} =>
          /\ Declared(iConcrete) => iConcrete = PtrZero
          /\ Declared(iInterface) =>
                iInterface.kind = "iface" /\ Dyn(iInterface) = PtrZero
          /\ pc = "i_now" \/ (pc = "i_loop" /\ i = 0) =>
                CounterOf(iInterface) = nbOps * inc
          /\ pc \in InterfaceStretch =>
                CounterOf(iConcrete) = CounterOf(iInterface)
          /\ pc \in {"i_report"} \cup AfterReports => zero = 2 * nbOps * inc
    /\ variant = "A" =>
          /\ zero = 0
          /\ pc = "i_now" \/ (pc = "i_loop" /\ i = 0) =>
                CounterOf(iInterface) = 0
          /\ pc \in BeforeInterfaceReport \cup AfterReports =>
                iConcrete = Val(nbOps * inc)
          /\ pc \in {"i_report"} \cup AfterReports =>
                CounterOf(iInterface) = nbOps * inc

C11_Witness ==
    /\ variant = "B"
    /\ pc = "exited"
    /\ inc = 10
    /\ nbOps >= 1
    /\ iConcrete = PtrZero
    /\ Dyn(iInterface) = PtrZero
    /\ zero = 20 * nbOps

\* Heap allocations made by the declaration of the interface handle.
DeclBoxes == ConvAllocs(Dyn(InterfaceInit(variant)))

C12_BoxCount ==
    /\ pc \in BeforeConcreteReport \cup {"i_decl"} => boxes = 0 /\ convs = 0
    /\ variant = "A" =>
          /\ pc = "i_loop" => boxes = DeclBoxes + i /\ convs = 1 + i
          /\ pc \in {"i_report"} \cup AfterReports =>
                boxes = DeclBoxes + nbOps /\ convs = 1 + nbOps
    /\ variant = "B" =>
          /\ boxes = 0
          /\ pc = "i_loop" => convs = 1 + i
          /\ pc \in {"i_report"} \cup AfterReports => convs = 1 + nbOps
    /\ variant = "C" =>
          /\ boxes = 0
          /\ pc \in InterfaceStretch \cup AfterReports => convs = 1
    /\ Declared(iInterface) =>
          iInterface.tab = (IF variant = "A" THEN "Int" ELSE "*Int")

C12_LoopStep ==
    pc = "i_loop" /\ sums' # sums =>
        CASE variant = "A" ->
                /\ boxes' = boxes + 1
                /\ convs' = convs + 1
                /\ iInterface' = ConvT2I(Val(CounterOf(iInterface) + inc))
          [] variant = "B" ->
                /\ boxes' = boxes
                /\ convs' = convs + 1
                /\ iInterface' = ConvT2I(PtrZero)
          [] variant = "C" ->
                /\ boxes' = boxes
                /\ convs' = convs
                /\ iInterface' = iInterface

\* C12: counting the heap allocations of value-to-interface conversions,
\* the interface loop of variant A makes one on each of its nbOps
\* iterations, when the Int returned by Sum is stored in iInterface; the
\* interface loop of B makes none (a pointer is stored back); the loop body
\* of C stores nothing in the interface variable, whose only conversion is
\* the capture of &zero before the loop.  The concrete loop makes none.
C12_BoxingPerVariant == []C12_BoxCount /\ [][C12_LoopStep]_vars

C12_Witness ==
    /\ variant = "A"
    /\ pc = "i_report"
    /\ nbOps = MaxOps
    /\ boxes = DeclBoxes + nbOps
    /\ iInterface = ConvT2I(Val(nbOps * inc))

====
